---------------------------- MODULE Spec2Model ----------------------------
(***************************************************************************)
(* ScanStrategy (src/src/strategy.rs): the configuration builder and the   *)
(* scan algorithm, as a state machine.  One scan is split at its engine    *)
(* calls (Store::analyze, TextData::optimize_bounds, TextData::white_out), *)
(* so that the states inside the optimization loop are visible.            *)
(*                                                                         *)
(* f32 scores and limits are written in hundredths (0.8 is 80).  A text is *)
(* identified by the set of its lines that have been whited out; the       *)
(* input text has none.  The engine (Store, TextData) is not part of the   *)
(* file: it is a black box that may give any answer its contract allows.   *)
(* Under Spec every call is answered afresh (every sequence of answers);   *)
(* under SpecRepeat the engine is one fixed deterministic engine, whose    *)
(* answers are chosen the first time a question is asked and remembered,   *)
(* and the caller keeps the results of its successive scan calls.          *)
(***************************************************************************)
EXTENDS Integers, Sequences, FiniteSets

VARIABLES
    strategy,        \* the ScanStrategy: confidence_threshold, shallow_limit, optimize, max_passes
    text,            \* the caller's TextData handed to scan (by reference)
    pc,              \* position of the current scan call
    analysis,        \* scan local `analysis`
    score,           \* scan local `score`
    license,         \* scan local `license` (Option)
    containing,      \* scan local `containing` (Vec)
    current_text,    \* scan local `current_text` (Cow)
    n,               \* number of loop passes begun (`_n` + 1)
    optimized,       \* scan local `optimized` (the view optimize_bounds returned)
    optimized_score, \* scan local `optimized_score`
    outcome,         \* what the scan call returned: Ok(ScanResult) or Err
    exit,            \* the statement through which the scan left
    calls,           \* engine calls made by the current scan
    whole,           \* the engine's answer to the whole-document analyze call of the current scan
    engine_fixed,    \* whether the engine is one fixed deterministic engine
    scans,           \* the results the caller keeps from its successive scan calls
    store_analyze,   \* the engine's answers to Store::analyze, per text
    text_optimize,   \* the engine's answers to TextData::optimize_bounds, per text and match data
    trace            \* the engine calls of the current scan, in the order they were made

vars == <<strategy, text, pc, analysis, score, license, containing, current_text, n,
          optimized, optimized_score, outcome, exit, calls, whole, engine_fixed, scans,
          store_analyze, text_optimize, trace>>

locals == <<analysis, score, license, containing, current_text, n,
            optimized, optimized_score>>

(***************************************************************************)
(* Bounds of the model.                                                    *)
(***************************************************************************)
\* lines of the input text
NumLines == 2
\* largest argument given to the max_passes setter
MaxPasses == 2
\* scan calls made on one strategy and text
MaxScans == 2

(***************************************************************************)
(* Program constants: the defaults of ScanStrategy::new.                   *)
(***************************************************************************)
DefaultConfidenceThreshold == 80
DefaultShallowLimit == 99
DefaultMaxPasses == 10

\* arguments the caller gives to the f32 setters
ThresholdArgs == {0, 50, 150}
ShallowLimitArgs == {0}

(***************************************************************************)
(* Option and Result.                                                      *)
(***************************************************************************)
None == <<>>
Some(x) == <<x>>

(***************************************************************************)
(* Result model (lines 25-43).                                             *)
(***************************************************************************)
IdentifiedLicense(name, kind) == [name |-> name, kind |-> kind]

ScanResult(s, l, c) == [score |-> s, license |-> l, containing |-> c]

ContainedResult(s, l, r) == [score |-> s, license |-> l, line_range |-> r]

Ok(r) == [tag |-> "Ok", value |-> r]

Err == [tag |-> "Err"]

(***************************************************************************)
(* The engine, from its contract: Store::analyze (classify),               *)
(* TextData::optimize_bounds (localize), lines_view and white_out (mask).  *)
(***************************************************************************)
Lines == 0 .. (NumLines - 1)

Texts == SUBSET Lines

InputText == {}

Names == {"license-1", "license-2"}

EngineScores == {0, 50, 100}

\* the kind the store holds for a license
LicenseType(name) == IF name = "license-1" THEN "Original" ELSE "Header"

\* a successful analysis: score, name, license_type, data (the matched reference text)
Match(s, name) == [ok |-> TRUE, score |-> s, name |-> name,
                   license_type |-> LicenseType(name), data |-> name]

\* a failed analyze call
Fault == [ok |-> FALSE, score |-> 0, name |-> "", license_type |-> "", data |-> ""]

AnalyzeAnswers == {Match(s, name) : s \in EngineScores, name \in Names} \cup {Fault}

LineRanges == {r \in Lines \X Lines : r[1] <= r[2]}

RangeLines(r) == r[1] .. r[2]

\* the views optimize_bounds may return on text t: a range that is entirely whited
\* out resembles no reference text (score 0)
OptimizeAnswers(t) ==
    {v \in [lines_view : LineRanges, score : EngineScores] :
        (RangeLines(v.lines_view) \subseteq t) => (v.score = 0)}

\* the answers the engine can give to analyze(t): the remembered one, if any
analyze(t) ==
    IF store_analyze[t] = None THEN AnalyzeAnswers ELSE {store_analyze[t][1]}

\* the answers the engine can give to t.optimize_bounds(data)
optimize_bounds(t, data) ==
    IF text_optimize[<<t, data>>] = None THEN OptimizeAnswers(t)
    ELSE {text_optimize[<<t, data>>][1]}

\* optimized.lines_view()
lines_view(v) == v.lines_view

\* the results optimized.white_out() can have: the text with the view's lines
\* neutralised, or, only for a view found with score zero, failure
white_out(t, v) ==
    {Some(t \cup RangeLines(v.lines_view))} \cup (IF v.score > 0 THEN {} ELSE {None})

(***************************************************************************)
(* The decisions of scan.                                                  *)
(***************************************************************************)
\* variant: the threshold test written with >=
MeetsThresholdOrEqual(s, threshold) == s >= threshold

\* line 114: analysis.score > self.confidence_threshold
MeetsThreshold(s, threshold) == s > threshold

\* variant: every scan that identifies a license returns at once
AlwaysShallow(s, limit) == TRUE

\* variant: the shallow-limit test written the wrong way round
BelowShallowLimit(s, limit) == s < limit

\* line 121: analysis.score > self.shallow_limit
AboveShallowLimit(s, limit) == s > limit

\* variant: the loop also stops on a score equal to the threshold
NotAcceptableOrEqual(s, threshold) == s <= threshold

\* line 138: optimized_score < self.confidence_threshold
NotAcceptable(s, threshold) == s < threshold

\* variant: the budget is spent per engine call pair, 0..2*self.max_passes
HasNextPassTwice(passes, max) == passes < 2 * max

\* variant: an inclusive range, 0..=self.max_passes
HasNextPassInclusive(passes, max) == passes <= max

\* line 134: for _n in 0..self.max_passes, after `passes` passes were begun
HasNextPass(passes, max) == passes < max

\* variant: the new entry replaces what was found before
push_over(vec, x) == <<x>>

\* variant: the new entry is inserted at the front
push_front(vec, x) == <<x>> \o vec

\* line 143: containing.push(..)
push(vec, x) == Append(vec, x)

\* an engine call as the scan's trace keeps it: Store::analyze with the text it
\* was given and the match it returned
analyze_call(t, a) ==
    [op |-> "analyze", text |-> t, data |-> a.data, name |-> a.name,
     kind |-> a.license_type]

\* TextData::optimize_bounds with the text and the match data it was given
optimize_bounds_call(t, data) ==
    [op |-> "optimize_bounds", text |-> t, data |-> data, name |-> "", kind |-> ""]

\* TextDataView::white_out with the text it produced (the view's own text when
\* it failed)
white_out_call(t) ==
    [op |-> "white_out", text |-> t, data |-> "", name |-> "", kind |-> ""]

NoCalls == [analyze |-> 0, optimize_bounds |-> 0, white_out |-> 0]

NoAnalysis == Fault

NoView == [lines_view |-> <<0, 0>>, score |-> 0]

(***************************************************************************)
(* ScanStrategy::new and the setters (lines 77-105).                       *)
(***************************************************************************)
new == [confidence_threshold |-> DefaultConfidenceThreshold,
        shallow_limit |-> DefaultShallowLimit,
        optimize |-> FALSE,
        max_passes |-> DefaultMaxPasses]

Start ==
    /\ strategy = new
    /\ text = InputText
    /\ pc = "idle"
    /\ analysis = NoAnalysis
    /\ score = 0
    /\ license = None
    /\ containing = <<>>
    /\ current_text = InputText
    /\ n = 0
    /\ optimized = NoView
    /\ optimized_score = 0
    /\ outcome = None
    /\ exit = "none"
    /\ calls = NoCalls
    /\ whole = None
    /\ scans = <<>>
    /\ store_analyze = [t \in Texts |-> None]
    /\ text_optimize = [k \in Texts \X Names |-> None]
    /\ trace = <<>>

Init == Start /\ engine_fixed = FALSE

InitRepeat == Start /\ engine_fixed = TRUE

\* the engine's table after answering a question, when it is a fixed engine
remember(table, question, answer) ==
    IF engine_fixed THEN [table EXCEPT ![question] = Some(answer)] ELSE table

unscanned == <<text, pc, analysis, score, license, containing, current_text, n,
               optimized, optimized_score, outcome, exit, calls, whole, engine_fixed,
               scans, store_analyze, text_optimize, trace>>

\* the caller tunes the f32 fields and optimize before its first scan; between
\* scans it only raises the pass budget by one
\* variant: the setter clamps its argument to at most 1.0
confidence_threshold_clamped(x) ==
    /\ pc = "idle" /\ scans = <<>>
    /\ strategy' = [strategy EXCEPT !.confidence_threshold = IF x > 100 THEN 100 ELSE x]
    /\ UNCHANGED unscanned

\* lines 87-90
confidence_threshold(x) ==
    /\ pc = "idle" /\ scans = <<>>
    /\ strategy' = [strategy EXCEPT !.confidence_threshold = x]
    /\ UNCHANGED unscanned

\* lines 92-95
shallow_limit(x) ==
    /\ pc = "idle" /\ scans = <<>>
    /\ strategy' = [strategy EXCEPT !.shallow_limit = x]
    /\ UNCHANGED unscanned

\* lines 97-100
optimize(b) ==
    /\ pc = "idle" /\ scans = <<>>
    /\ strategy' = [strategy EXCEPT !.optimize = b]
    /\ UNCHANGED unscanned

\* lines 102-105
max_passes(m) ==
    /\ pc = "idle"
    /\ scans = <<>> \/ m = strategy.max_passes + 1
    /\ strategy' = [strategy EXCEPT !.max_passes = m]
    /\ UNCHANGED unscanned

(***************************************************************************)
(* ScanStrategy::scan (lines 107-163).                                     *)
(***************************************************************************)
\* variant: the result is built from the current analysis instead of the saved score
ReturnCurrent == Ok(ScanResult(analysis.score, license, containing))

\* lines 158-162 and 122-126: return Ok(ScanResult { score, license, containing })
Return == Ok(ScanResult(score, license, containing))

\* variant: a failed analyze call ends the scan with what was found so far
PartialResult(s, l, c) == Ok(ScanResult(s, l, c))

\* the `?` of lines 108 and 154: the engine's error is returned, whatever the
\* call had built so far
Failure(s, l, c) == Err

\* line 133: Cow::Borrowed(text), the working text is the caller's text itself
Cow_Borrowed(t) == t

\* variant: the whited-out text is dropped and the working text stays the input
Cow_Dropped(borrowed, masked) == [text |-> borrowed, current_text |-> borrowed]

\* variant: the white-out is written through the borrow into the caller's text
Cow_WriteThrough(borrowed, masked) == [text |-> masked, current_text |-> masked]

\* line 153: Cow::Owned(masked), the working text becomes the new value and the
\* borrowed input stays as it is
Cow_Owned(borrowed, masked) == [text |-> borrowed, current_text |-> masked]

\* variant: every entry is given the identity of the whole-document analysis
WholeIdentity == IdentifiedLicense(whole[1].name, whole[1].license_type)

\* lines 145-148: the identity an entry is given, that of the analysis the pass began with
CurrentIdentity == IdentifiedLicense(analysis.name, analysis.license_type)

\* lines 108-133: the whole-document analysis, the threshold and shallow-limit
\* decisions, and the entry into the loop
scan ==
    /\ pc = "idle"
    /\ Len(scans) < MaxScans
    /\ strategy.optimize => strategy.max_passes <= MaxPasses
    /\ \E a \in analyze(text) :
        /\ store_analyze' = remember(store_analyze, text, a)
        /\ calls' = [NoCalls EXCEPT !.analyze = 1]
        /\ n' = 0
        /\ optimized' = NoView
        /\ optimized_score' = 0
        /\ current_text' = Cow_Borrowed(text)
        /\ whole' = Some(a)
        /\ trace' = <<analyze_call(text, a)>>
        /\ IF ~a.ok
           THEN /\ pc' = "err"
                /\ outcome' = Some(Failure(score, license, containing))
                /\ exit' = "analyze"
                /\ UNCHANGED <<analysis, score, license, containing>>
           ELSE /\ analysis' = a
                /\ score' = a.score
                /\ containing' = <<>>
                /\ license' = IF MeetsThreshold(a.score, strategy.confidence_threshold)
                              THEN Some(IdentifiedLicense(a.name, a.license_type))
                              ELSE None
                /\ IF /\ MeetsThreshold(a.score, strategy.confidence_threshold)
                      /\ AboveShallowLimit(a.score, strategy.shallow_limit)
                   THEN /\ pc' = "ok"
                        /\ exit' = "shallow"
                        /\ outcome' = Some(Return')
                   ELSE IF strategy.optimize
                   THEN /\ pc' = "for"
                        /\ exit' = "none"
                        /\ outcome' = None
                   ELSE /\ pc' = "ok"
                        /\ exit' = "no_optimize"
                        /\ outcome' = Some(Return')
    /\ UNCHANGED <<strategy, text, engine_fixed, scans, text_optimize>>

\* line 134: the head of the for loop; lines 158-162 when the range is exhausted
for ==
    /\ pc = "for"
    /\ IF HasNextPass(n, strategy.max_passes)
       THEN /\ n' = n + 1
            /\ pc' = "optimize_bounds"
            /\ UNCHANGED <<outcome, exit>>
       ELSE /\ pc' = "ok"
            /\ exit' = "exhausted"
            /\ outcome' = Some(Return)
            /\ UNCHANGED n
    /\ UNCHANGED <<strategy, text, analysis, score, license, containing, current_text,
                   optimized, optimized_score, calls, whole, engine_fixed, scans,
                   store_analyze, text_optimize, trace>>

\* variant: the last pass the budget allows skips the white-out and the
\* analysis that only a following pass would use
AfterPushUnlessLast == IF n = strategy.max_passes THEN "for" ELSE "white_out"

\* lines 152-154: after the push every pass goes on to white-out and reanalyze
AfterPush == "white_out"

\* lines 135-150: localize, the threshold check, and the push
optimize_pass ==
    /\ pc = "optimize_bounds"
    /\ \E v \in optimize_bounds(current_text, analysis.data) :
        /\ text_optimize' = remember(text_optimize, <<current_text, analysis.data>>, v)
        /\ calls' = [calls EXCEPT !.optimize_bounds = @ + 1]
        /\ trace' = Append(trace, optimize_bounds_call(current_text, analysis.data))
        /\ optimized' = v
        /\ optimized_score' = v.score
        /\ IF NotAcceptable(v.score, strategy.confidence_threshold)
           THEN /\ pc' = "ok"
                /\ exit' = "break"
                /\ outcome' = Some(Return)
                /\ UNCHANGED containing
           ELSE /\ containing' = push(containing,
                        ContainedResult(v.score, CurrentIdentity, lines_view(v)))
                /\ pc' = AfterPush
                /\ UNCHANGED <<outcome, exit>>
    /\ UNCHANGED <<strategy, text, analysis, score, license, current_text, n,
                   whole, engine_fixed, scans, store_analyze>>

\* variant: a failed white_out is returned to the caller as an error
expect_as_error ==
    /\ pc' = "err"
    /\ exit' = "expect"
    /\ outcome' = Some(Err)

\* line 153: .expect("optimized must have text") on None panics; the call is
\* abandoned and returns nothing
expect_panic ==
    /\ pc' = "panic"
    /\ exit' = "expect"
    /\ UNCHANGED outcome

\* line 153: current_text = Cow::Owned(optimized.white_out().expect(..))
white_out_pass ==
    /\ pc = "white_out"
    /\ calls' = [calls EXCEPT !.white_out = @ + 1]
    /\ \E masked \in white_out(current_text, optimized) :
       IF masked = None
       THEN /\ trace' = Append(trace, white_out_call(current_text))
            /\ expect_panic
            /\ UNCHANGED <<text, current_text>>
       ELSE /\ trace' = Append(trace, white_out_call(masked[1]))
            /\ text' = Cow_Owned(text, masked[1]).text
            /\ current_text' = Cow_Owned(text, masked[1]).current_text
            /\ pc' = "analyze"
            /\ UNCHANGED <<exit, outcome>>
    /\ UNCHANGED <<strategy, analysis, score, license, containing, n, optimized,
                   optimized_score, whole, engine_fixed, scans, store_analyze,
                   text_optimize>>

\* line 154: analysis = self.store.analyze(&current_text)?
reanalyze ==
    /\ pc = "analyze"
    /\ \E a \in analyze(current_text) :
        /\ store_analyze' = remember(store_analyze, current_text, a)
        /\ calls' = [calls EXCEPT !.analyze = @ + 1]
        /\ trace' = Append(trace, analyze_call(current_text, a))
        /\ IF ~a.ok
           THEN /\ pc' = "err"
                /\ outcome' = Some(Failure(score, license, containing))
                /\ exit' = "reanalyze"
                /\ UNCHANGED analysis
           ELSE /\ analysis' = a
                /\ pc' = "for"
                /\ UNCHANGED <<outcome, exit>>
    /\ UNCHANGED <<strategy, text, score, license, containing, current_text, n,
                   optimized, optimized_score, whole, engine_fixed, scans, text_optimize>>

\* the caller receives the Result; the locals of the call are dropped
returned ==
    /\ pc \in {"ok", "err"}
    /\ scans' = IF engine_fixed
                THEN Append(scans, [strategy |-> strategy, outcome |-> outcome[1]])
                ELSE scans
    /\ pc' = "idle"
    /\ analysis' = NoAnalysis
    /\ score' = 0
    /\ license' = None
    /\ containing' = <<>>
    /\ current_text' = Cow_Borrowed(text)
    /\ n' = 0
    /\ optimized' = NoView
    /\ optimized_score' = 0
    /\ outcome' = None
    /\ trace' = <<>>
    /\ UNCHANGED <<strategy, text, exit, calls, whole, engine_fixed, store_analyze,
                   text_optimize>>

ScanStep == scan \/ for \/ optimize_pass \/ white_out_pass \/ reanalyze

Next ==
    \/ \E x \in ThresholdArgs : confidence_threshold(x)
    \/ \E x \in ShallowLimitArgs : shallow_limit(x)
    \/ \E b \in BOOLEAN : optimize(b)
    \/ \E m \in 0 .. MaxPasses : max_passes(m)
    \/ scan
    \/ for
    \/ optimize_pass
    \/ white_out_pass
    \/ reanalyze
    \/ returned

Spec == Init /\ [][Next]_vars

SpecRepeat == InitRepeat /\ [][Next]_vars

(***************************************************************************)
(* Properties of scan.                                                     *)
(***************************************************************************)
\* the ScanResult of a scan that returned Ok
result == outcome[1].value

\* the license the whole-document analysis `a` deserves under threshold t
WholeLicense(a, t) ==
    IF a.score > t THEN Some(IdentifiedLicense(a.name, a.license_type)) ELSE None

\* C1: a returned ScanResult has license = Some exactly when the score of the
\* whole-document analyze call is strictly greater than confidence_threshold;
\* a score equal to the threshold gives None.
C1_LicenseIffAboveThreshold ==
    pc = "ok" =>
        /\ (result.license # None) <=> (whole[1].score > strategy.confidence_threshold)
        /\ (whole[1].score = strategy.confidence_threshold) => (result.license = None)

C1_Witness_ScoreEqualsThreshold ==
    /\ pc = "ok"
    /\ whole[1].score = strategy.confidence_threshold
    /\ result.license = None

\* C2: every entry of containing has a score strictly greater than
\* confidence_threshold, at every point of the loop.
C2_ContainedAboveThreshold ==
    \A i \in 1 .. Len(containing) :
        containing[i].score > strategy.confidence_threshold

\* C3 as stated: a whole-document score above shallow_limit gives an empty
\* containing, whatever optimize and confidence_threshold are.
C3_AboveShallowLimitEmpty ==
    (pc = "ok" /\ whole[1].score > strategy.shallow_limit) => (result.containing = <<>>)

\* C3 amended: a whole-document score above both confidence_threshold and
\* shallow_limit gives an empty containing, whatever optimize is.
C3_ShallowExitEmpty ==
    ( /\ pc = "ok"
      /\ whole[1].score > strategy.confidence_threshold
      /\ whole[1].score > strategy.shallow_limit ) =>
        (result.containing = <<>> /\ containing = <<>>)

C3_Witness_ShallowExitWithOptimize ==
    /\ pc = "ok"
    /\ whole[1].score > strategy.confidence_threshold
    /\ whole[1].score > strategy.shallow_limit
    /\ strategy.optimize
    /\ strategy.max_passes > 0
    /\ result.containing = <<>>

\* C4: in every state of a scan and in every returned ScanResult, containing
\* has at most max_passes entries (none when max_passes = 0).
C4_ContainingAtMostMaxPasses ==
    /\ Len(containing) <= strategy.max_passes
    /\ pc = "ok" => Len(result.containing) <= strategy.max_passes

C4_Witness_BudgetUsedUp ==
    /\ pc = "ok"
    /\ strategy.optimize
    /\ strategy.max_passes >= 2
    /\ Len(result.containing) = strategy.max_passes

\* C5: a scan returns either a complete ScanResult or the engine error, never
\* both and nothing in between; a failed analyze call, the first or one after
\* a white-out, makes scan return the error, and the entries found in earlier
\* passes are not delivered.  (A failed white_out is a panic, which returns
\* nothing at all.)
C5_ResultOrError ==
    /\ (outcome # None) <=> (pc \in {"ok", "err"})
    /\ pc = "ok" =>
          /\ outcome = Some(Ok(ScanResult(score, license, containing)))
          /\ exit \in {"shallow", "no_optimize", "break", "exhausted"}
    /\ pc = "err" => (outcome = Some(Err) /\ exit \in {"analyze", "reanalyze"})
    /\ (pc # "idle" /\ exit \in {"analyze", "reanalyze"}) => pc = "err"
    /\ (pc # "idle" /\ whole # None /\ ~whole[1].ok) => (pc = "err" /\ exit = "analyze")

C5_Witness_EntriesLost ==
    /\ pc = "err"
    /\ exit = "reanalyze"
    /\ Len(containing) >= 1
    /\ outcome = Some(Err)

\* C6: score and license of the scan, and of the ScanResult it returns, are
\* those fixed by the whole-document analyze call; no later pass changes them,
\* whatever the later analyze calls return.
C6_ScoreAndLicenseFromFirstAnalysis ==
    /\ (pc \in {"for", "optimize_bounds", "white_out", "analyze", "ok", "panic"}) =>
          /\ score = whole[1].score
          /\ license = WholeLicense(whole[1], strategy.confidence_threshold)
    /\ pc = "ok" =>
          /\ result.score = whole[1].score
          /\ result.license = WholeLicense(whole[1], strategy.confidence_threshold)

C6_Witness_LaterAnalysisDiffers ==
    /\ pc = "ok"
    /\ Len(result.containing) >= 1
    /\ analysis.score # whole[1].score
    /\ analysis.name # whole[1].name
    /\ result.license # None

\* a scan that is inside its loop
C7_Running == pc \in {"for", "optimize_bounds", "white_out", "analyze"}

\* the steps a running scan has left at most: four per pass not yet begun, and
\* those left in the pass it is in
C7_StepsLeft ==
    4 * (strategy.max_passes - n)
      + (CASE pc = "optimize_bounds" -> 3
           [] pc = "white_out" -> 2
           [] pc = "analyze" -> 1
           [] OTHER -> 0)

\* C7: every scan terminates: a running scan always has a next step, and every
\* step that keeps it running lowers the number of steps left, which is never
\* negative; the loop begins at most max_passes passes; a scan that returns
\* from the loop left it through a localize score below confidence_threshold,
\* through exhaustion of the pass count, or through a propagated engine error;
\* after a threshold miss no further engine call is made.  (A failed white_out
\* aborts the call by a panic, which is a fatal assertion and not an exit of
\* the loop.)
C7_LoopTerminates ==
    /\ [](C7_Running => (ENABLED ScanStep /\ C7_StepsLeft >= 0))
    /\ [][(C7_Running /\ C7_Running') => C7_StepsLeft' < C7_StepsLeft]_vars
    /\ [][C7_Running => (C7_Running' \/ pc' \in {"ok", "err", "panic"})]_vars
    /\ [](n <= strategy.max_passes \/ pc = "idle")
    /\ []((pc = "ok" /\ calls.optimize_bounds > 0) =>
            \/ exit = "break" /\ optimized_score < strategy.confidence_threshold
            \/ exit = "exhausted" /\ n = strategy.max_passes)
    /\ []((pc = "err" /\ calls.optimize_bounds > 0) => exit = "reanalyze")
    /\ []((pc = "panic") => exit = "expect")
    /\ [][(pc = "optimize_bounds" /\ optimized_score' < strategy.confidence_threshold)
            => (pc' = "ok" /\ exit' = "break")]_vars
    /\ [][(pc \in {"ok", "err", "panic"}) => (calls' = calls /\ pc' = "idle")]_vars

C7_Witness_ThresholdMiss ==
    /\ pc = "ok"
    /\ exit = "break"
    /\ n < strategy.max_passes
    /\ calls.optimize_bounds = n
    /\ calls.analyze = 1
    /\ optimized_score < strategy.confidence_threshold

(***************************************************************************)
(* Properties of successive scans against one fixed engine (SpecRepeat).   *)
(***************************************************************************)
\* C8: no two entries of containing have the same line_range, for every
\* configuration and every engine that keeps the contract.
C8_NoDuplicateRanges ==
    \A i, j \in 1 .. Len(containing) :
        i # j => containing[i].line_range # containing[j].line_range

\* the entries a scan outcome delivers to the caller
Delivered(o) == IF o.tag = "Ok" THEN o.value.containing ELSE <<>>

IsPrefix(a, b) == Len(a) <= Len(b) /\ SubSeq(b, 1, Len(a)) = a

\* two kept scans that differ only in max_passes, the second having one more
SameButOneMorePass(i, j) ==
    /\ scans[j].strategy.max_passes = scans[i].strategy.max_passes + 1
    /\ [scans[j].strategy EXCEPT !.max_passes = scans[i].strategy.max_passes]
         = scans[i].strategy

C10_ScanDeterministic ==
    /\ [](text = InputText)
    /\ [](\A i, j \in 1 .. Len(scans) :
            scans[i].strategy = scans[j].strategy => scans[i].outcome = scans[j].outcome)
    /\ [][pc # "idle" => (strategy' = strategy /\ text' = text)]_vars

C10_Witness_SameScanTwice ==
    /\ Len(scans) = 2
    /\ scans[1].strategy = scans[2].strategy
    /\ scans[1].outcome.tag = "Ok"
    /\ Len(scans[1].outcome.value.containing) = 2
    /\ scans[1].outcome = scans[2].outcome

(***************************************************************************)
(* Properties of the configuration builder.                                *)
(***************************************************************************)
Fields == {"confidence_threshold", "shallow_limit", "optimize", "max_passes"}

\* the caller is building its strategy: no scan has been made with it yet
C11_Building == pc = "idle" /\ scans = <<>>

\* C11: new sets confidence_threshold = 0.8, shallow_limit = 0.99, optimize =
\* false and max_passes = 10; every setter stores the argument it is given as
\* it is, whatever the argument and the other fields are (no validation, no
\* clamping); a step that changes the strategy changes one field only and
\* leaves everything else, the engine and the count of engine calls included,
\* as it was.
C11_SettersArePureFieldWrites ==
    /\ strategy = [confidence_threshold |-> 80, shallow_limit |-> 99,
                   optimize |-> FALSE, max_passes |-> 10]
    /\ [](C11_Building =>
            /\ \A x \in ThresholdArgs :
                  ENABLED (confidence_threshold(x)
                             /\ strategy' = [strategy EXCEPT !.confidence_threshold = x])
            /\ \A x \in ShallowLimitArgs :
                  ENABLED (shallow_limit(x)
                             /\ strategy' = [strategy EXCEPT !.shallow_limit = x])
            /\ \A b \in BOOLEAN :
                  ENABLED (optimize(b) /\ strategy' = [strategy EXCEPT !.optimize = b])
            /\ \A m \in 0 .. MaxPasses :
                  ENABLED (max_passes(m) /\ strategy' = [strategy EXCEPT !.max_passes = m]))
    /\ [][strategy' # strategy =>
            /\ \E f \in Fields : \A g \in Fields \ {f} : strategy'[g] = strategy[g]
            /\ UNCHANGED unscanned]_vars

C11_Witness_EveryFieldTuned ==
    /\ whole = None
    /\ calls = NoCalls
    /\ trace = <<>>
    /\ strategy.confidence_threshold = 150
    /\ strategy.shallow_limit = 0
    /\ strategy.optimize
    /\ strategy.max_passes = 0

(***************************************************************************)
(* Properties of the engine calls of one scan.                             *)
(***************************************************************************)
\* the analyze calls of the current scan, in the order they were made
Classified == SelectSeq(trace, LAMBDA c : c.op = "analyze")

\* C12: the license (name and kind) of the k-th entry of containing is the one
\* the k-th analyze call of the scan returned: the first entry has the
\* identity of the whole-document analysis, the entry of pass k+1 that of the
\* analysis made at the end of pass k.
C12_EntryIdentityFromEarlierClassify ==
    /\ Len(containing) <= Len(Classified)
    /\ \A k \in 1 .. Len(containing) :
          /\ containing[k].license.name = Classified[k].name
          /\ containing[k].license.kind = Classified[k].kind
    /\ containing # <<>> =>
          /\ containing[1].license.name = whole[1].name
          /\ containing[1].license.kind = whole[1].license_type

C12_Witness_IdentityOfPassBefore ==
    /\ pc = "ok"
    /\ Len(result.containing) = 2
    /\ Len(Classified) = 3
    /\ result.containing[1].license.name = "license-2"
    /\ result.containing[2].license.name = "license-1"
    /\ Classified[2].name = "license-1"
    /\ Classified[3].name = "license-2"

\* the scan reached the for statement of line 134
LoopEntered ==
    \/ pc \in {"for", "optimize_bounds", "white_out", "analyze", "panic"}
    \/ pc \in {"ok", "err"} /\ exit \in {"break", "exhausted", "reanalyze"}

\* the whole-document score is above both confidence_threshold and shallow_limit
ShallowExit ==
    /\ whole[1].score > strategy.confidence_threshold
    /\ whole[1].score > strategy.shallow_limit

\* C13: after a successful whole-document analysis the loop is entered exactly
\* when optimize = true and the shallow exit is not taken, whether or not the
\* whole-document score exceeds confidence_threshold; with a pass budget of at
\* least one the loop then makes a localize call.
C13_LoopIffOptimizeAndNotShallow ==
    (pc # "idle" /\ whole[1].ok) =>
        /\ LoopEntered <=> (strategy.optimize /\ ~ShallowExit)
        /\ (LoopEntered /\ pc \in {"ok", "err", "panic"} /\ strategy.max_passes > 0) =>
              calls.optimize_bounds >= 1

C13_Witness_NoLicenseButContained ==
    /\ pc = "ok"
    /\ whole[1].score < strategy.confidence_threshold
    /\ result.license = None
    /\ Len(result.containing) >= 1
    /\ result.containing[1].score > strategy.confidence_threshold

OpInOrder(i) ==
    CASE i % 3 = 1 -> "analyze"
      [] i % 3 = 2 -> "optimize_bounds"
      [] OTHER -> "white_out"

\* C15: the engine calls of a scan are made one after another in the order
\* analyze, then per pass optimize_bounds, white_out, analyze.  The first
\* analyze is given the input text; every optimize_bounds is given the text
\* and the match data of the analyze call just before it (the input text and
\* the whole-document match in pass 1, the text the previous pass whited out
\* and the match found on it afterwards); white_out whites out the range of
\* the view of its pass; the analyze of a pass is given the text white_out
\* produced.  A call that failed is the last call of the scan (no retry).
C15_CallsInOrder ==
    /\ [](pc # "idle" =>
            /\ Len(trace) = calls.analyze + calls.optimize_bounds + calls.white_out
            /\ trace # <<>>
            /\ trace[1].text = text)
    /\ [](\A i \in 1 .. Len(trace) :
            /\ trace[i].op = OpInOrder(i)
            /\ trace[i].op = "optimize_bounds" =>
                  /\ trace[i].text = trace[i - 1].text
                  /\ trace[i].data = trace[i - 1].data
                  /\ trace[i].data \in Names
            /\ (trace[i].op = "white_out" /\ ~(pc = "panic" /\ i = Len(trace))) =>
                  trace[i].text =
                    trace[i - 1].text \cup RangeLines(containing[i \div 3].line_range)
            /\ (trace[i].op = "analyze" /\ i > 1) => trace[i].text = trace[i - 1].text
            /\ (trace[i].op = "analyze" /\ trace[i].name = "") =>
                  (i = Len(trace) /\ pc = "err")
            /\ (pc = "panic" /\ i = Len(trace)) => trace[i].op = "white_out")
    /\ [][trace' # trace =>
            \/ trace' = <<>>
            \/ trace = <<>> /\ Len(trace') = 1
            \/ trace' = Append(trace, trace'[Len(trace')])]_vars

C15_Witness_SecondPassOnMaskedText ==
    /\ pc = "ok"
    /\ Len(trace) = 7
    /\ trace[3].text # text
    /\ trace[5].text = trace[3].text
    /\ trace[5].data = trace[4].data
    /\ trace[5].data # trace[2].data
    /\ trace[7].text # trace[5].text

\* C16: every pass that does not end the scan strictly shrinks the searchable
\* part of the working text: when a pass is over and the scan is back at the
\* head of the loop, the text white_out produced has at least one more line
\* whited out than the text the pass began with, for every configuration,
\* confidence_threshold = 0 included.
C16_EveryPassShrinksText ==
    (pc = "for" /\ n >= 1) =>
        /\ trace[Len(trace) - 2].text \subseteq trace[Len(trace) - 1].text
        /\ trace[Len(trace) - 2].text # trace[Len(trace) - 1].text

\* C17 as stated: a scan makes at most max_passes analyze calls and at most
\* max_passes optimize_bounds calls, for every configuration (max_passes = 0
\* and optimize = false included).
C17_AtMostMaxPassesCalls ==
    pc # "idle" =>
        /\ calls.analyze <= strategy.max_passes
        /\ calls.optimize_bounds <= strategy.max_passes

\* C17 amended: a scan makes at most 1 + max_passes analyze calls (the
\* whole-document one and one per pass), at most max_passes optimize_bounds
\* calls and at most max_passes white_out calls; with optimize = false it
\* makes the one whole-document analyze call only, whatever max_passes is.
C17_CallsBoundedByPasses ==
    pc # "idle" =>
        /\ calls.analyze >= 1
        /\ calls.analyze <= 1 + strategy.max_passes
        /\ calls.optimize_bounds <= strategy.max_passes
        /\ calls.white_out <= strategy.max_passes
        /\ calls.optimize_bounds <= n
        /\ ~strategy.optimize =>
              calls = [analyze |-> 1, optimize_bounds |-> 0, white_out |-> 0]

C17_Witness_OneMoreClassifyThanPasses ==
    /\ pc = "ok"
    /\ exit = "exhausted"
    /\ strategy.max_passes = 2
    /\ calls = [analyze |-> 3, optimize_bounds |-> 2, white_out |-> 2]

\* C18: a failed white_out on a view that passed the threshold check is a
\* panic: the scan is abandoned and yields neither an error value nor a
\* ScanResult, and nothing happens after it; the panic comes from the
\* white_out call only, after the entry of that pass was appended to
\* containing.
C18_MaskFailureIsPanic ==
    /\ [](pc = "panic" =>
            /\ outcome = None
            /\ exit = "expect"
            /\ trace[Len(trace)].op = "white_out"
            /\ calls.white_out = n
            /\ Len(containing) = n
            /\ n >= 1
            /\ containing[n].score = optimized_score
            /\ containing[n].line_range = lines_view(optimized)
            /\ ~(optimized_score < strategy.confidence_threshold))
    /\ []((pc # "idle" /\ exit = "expect") => pc = "panic")
    /\ [][pc # "panic"]_vars
    /\ [][pc' = "panic" =>
            /\ pc = "white_out"
            /\ calls'.white_out = calls.white_out + 1
            /\ containing' = containing
            /\ outcome' = None]_vars

C18_Witness_PanicAfterEntryAppended ==
    /\ pc = "panic"
    /\ outcome = None
    /\ Len(containing) = 2
    /\ containing[1].score > 0
    /\ containing[2].score = optimized_score
    /\ calls = [analyze |-> 2, optimize_bounds |-> 2, white_out |-> 2]

\* C19: every pass that records an entry also whites out and analyzes again,
\* the last pass of the budget included, although no pass follows to use that
\* analysis: a scan that entered the loop and returned a ScanResult made
\* exactly 1 + Len(containing) analyze calls and Len(containing) white_out
\* calls, its last call being an analyze call when the budget was used up;
\* and a scan whose analysis after a white-out failed returns the error, also
\* when that was the analysis of the last pass and containing was complete.
C19_EveryRecordingPassReanalyzes ==
    /\ (pc = "ok" /\ LoopEntered) =>
          /\ calls.analyze = 1 + Len(result.containing)
          /\ calls.white_out = Len(result.containing)
          /\ Len(Classified) = 1 + Len(result.containing)
          /\ exit = "break" => calls.optimize_bounds = 1 + Len(result.containing)
          /\ exit = "exhausted" =>
                /\ calls.optimize_bounds = Len(result.containing)
                /\ Len(result.containing) = strategy.max_passes
                /\ trace[Len(trace)].op = "analyze"
    /\ (pc = "err" /\ exit = "reanalyze") =>
          /\ outcome = Some(Err)
          /\ calls.analyze = 1 + Len(containing)
          /\ calls.white_out = Len(containing)
          /\ trace[Len(trace)].op = "analyze"
          /\ trace[Len(trace)].name = ""
    /\ pc = "white_out" => Len(containing) = calls.white_out + 1
    /\ pc = "analyze" => Len(containing) = calls.analyze

C19_Witness_LastReanalysisFails ==
    /\ pc = "err"
    /\ exit = "reanalyze"
    /\ outcome = Some(Err)
    /\ strategy.max_passes = 2
    /\ n = strategy.max_passes
    /\ Len(containing) = strategy.max_passes
    /\ calls = [analyze |-> 3, optimize_bounds |-> 2, white_out |-> 2]

=============================================================================
